---- MODULE Spec2Model ----
(***************************************************************************)
(* WordPressApiClient (web/remix-app/app/lib/wordpress-api.ts): the        *)
(* request() retry loop with its cache and abort timer, the single-item    *)
(* lookups getPost/getPage built on it, the list operations getPosts,      *)
(* getPages, getCategories and search, the health probe and clearCache;    *)
(* and the route loaders that call the client: the homepage, the page by   *)
(* slug and the health-check endpoint.  A call suspends at each await; the *)
(* steps of the model are the stretches of code between two awaits, the    *)
(* timer callback and the advance of the clock.  Times are in              *)
(* milliseconds.                                                           *)
(*                                                                         *)
(* Spec            calls made one after the other on one client            *)
(* SpecRequest     one getPost/getPage followed through all its retries    *)
(* SpecConcurrent  two getPost/getPage calls in flight at once             *)
(* SpecLists       one list operation, for every shape of its argument     *)
(* SpecLoaders     requests served by the route loaders                    *)
(* SpecLive        one getPost/getPage under the runtime's fairness        *)
(* SpecDefault     calls made through wordpressApi on the default client   *)
(***************************************************************************)
EXTENDS Integers, Sequences, FiniteSets, TLC

VARIABLES config, cache, now, ticks, calls, issued, last, loader, process

vars == <<config, cache, now, ticks, calls, issued, last, loader, process>>

(* ------------------------------ bounds --------------------------------- *)

\* largest configured retry count explored
MaxRetries == 2
\* number of clock advances explored in one behaviour
MaxTicks == 1
\* number of operations invoked in one behaviour
MaxCalls == 2
\* number of revisions of a record the backend may serve
MaxRev == 1
\* largest configured retry count, and number of clock advances, explored
\* while one request() is followed through its retry loop
MaxAttempts == 3
MaxWaitTicks == 3
\* number of requests the route loaders serve in one behaviour
MaxRequests == 2

\* the callers of the one client, and the one that runs alone
Calls == {1, 2}
Sequential == {1}

(* --------------------------- program constants ------------------------- *)

DefaultTimeout == 10000
DefaultCacheTtl == 5 * 60 * 1000
HealthCheckTimeout == 5000
BaseUrl == "http://localhost:3042/wp"

\* amounts by which the clock is observed to advance between two steps
TickSteps == {1000, DefaultCacheTtl}

\* HTTP statuses the backend answers with
Statuses == {200, 404, 500, 503}

\* response.ok
Ok(status) == status >= 200 /\ status <= 299

(* ------------------------------- values -------------------------------- *)

Slugs == {"about"}
Ids == {1}

\* the argument of getPost/getPage: string | number
Identifiers ==
    {[isNumber |-> TRUE, num |-> n, str |-> ""] : n \in Ids}
        \cup {[isNumber |-> FALSE, num |-> 0, str |-> s] : s \in Slugs}

NoIdentifier == [isNumber |-> FALSE, num |-> 0, str |-> ""]

\* the argument of getPosts; 0 and "" stand for a field that is absent
\* or falsy, which the code's `if (params.x)` tests do not tell apart
NoParams ==
    [page |-> 0, perPage |-> 0, categories |-> "", tags |-> "", search |-> "",
     orderby |-> "", order |-> "", status |-> ""]

\* one optional field of an argument object: absent (undefined), or present
\* with a number, a string or a boolean
Absent == [present |-> FALSE, num |-> 0, str |-> ""]
Num(n) == [present |-> TRUE, num |-> n, str |-> ""]
Str(s) == [present |-> TRUE, num |-> 0, str |-> s]
Bool(b) == [present |-> TRUE, num |-> 0, str |-> IF b THEN "true" ELSE "false"]

\* the argument of a list operation, field by field; `query` is the first
\* argument of search
NoArgs ==
    [query |-> "", type |-> Absent, page |-> Absent, perPage |-> Absent,
     categories |-> Absent, tags |-> Absent, search |-> Absent,
     parent |-> Absent, orderby |-> Absent, order |-> Absent,
     status |-> Absent, hideEmpty |-> Absent]

\* what the tests `if (params.x)` and `params.x || d` see of an argument
Flatten(args) ==
    [page |-> args.page.num, perPage |-> args.perPage.num,
     categories |-> args.categories.str, tags |-> args.tags.str,
     search |-> args.search.str, orderby |-> args.orderby.str,
     order |-> args.order.str, status |-> args.status.str]

\* an argument object with the fields of `params` that are not falsy
Given(params) ==
    [NoArgs EXCEPT
        !.page = IF params.page = 0 THEN Absent ELSE Num(params.page),
        !.perPage = IF params.perPage = 0 THEN Absent ELSE Num(params.perPage),
        !.categories = IF params.categories = "" THEN Absent
                       ELSE Str(params.categories),
        !.tags = IF params.tags = "" THEN Absent ELSE Str(params.tags),
        !.search = IF params.search = "" THEN Absent ELSE Str(params.search),
        !.orderby = IF params.orderby = "" THEN Absent ELSE Str(params.orderby),
        !.order = IF params.order = "" THEN Absent ELSE Str(params.order),
        !.status = IF params.status = "" THEN Absent ELSE Str(params.status)]

PostsParams ==
    {NoParams,
     [NoParams EXCEPT !.perPage = 2],
     [NoParams EXCEPT !.search = "xyz-no-match"],
     [NoParams EXCEPT !.perPage = 6, !.orderby = "date", !.order = "desc",
                      !.status = "publish"]}

\* a content item as the backend serves it
Item(type, id, slug, rev) == [type |-> type, id |-> id, slug |-> slug, rev |-> rev]

NoItem == Item("", 0, "", 0)

\* a parsed JSON body: an array of items, or one item (items has length 1)
ArrayBody(items) == [isArray |-> TRUE, items |-> items]
ObjectBody(item) == [isArray |-> FALSE, items |-> <<item>>]

NoBody == [isArray |-> FALSE, items |-> <<>>]

\* WordPressApiResponse<T>
NoList == [data |-> <<>>, total |-> 0, totalPages |-> 0, page |-> 0, perPage |-> 0]

NoHealth == [status |-> "", message |-> ""]

\* WordPressApiError, and the other errors the runtime raises
WordPressApiError(message, status) ==
    [name |-> "WordPressApiError", message |-> message, status |-> status]

\* an error without a status field (status reads as undefined, here 0)
RuntimeError(name) == [name |-> name, message |-> name, status |-> 0]

NoError == [name |-> "", message |-> "", status |-> 0]

(* --------------------------- route loaders: values --------------------- *)

\* the placeholder content of mock-wordpress.ts; revision 0 marks an item
\* that did not come from the backend
MockPosts ==
    <<Item("post", 1, "welcome-to-wordpress", 0),
      Item("post", 2, "remix-wordpress-integration", 0),
      Item("post", 3, "building-modern-web-apps", 0)>>

MockPages == <<Item("page", 4, "about", 0), Item("page", 5, "contact", 0)>>

\* the slug route parameter: one with a placeholder page, one without, and
\* the missing parameter
RouteSlugs == {"about", "missing", ""}

\* what a loader answers with: json(...) returned, or a Response thrown
NoResponse ==
    [kind |-> "none", status |-> 0, posts |-> <<>>, page |-> NoItem,
     success |-> FALSE, error |-> "", health |-> NoHealth]

Thrown(status) == [NoResponse EXCEPT !.kind = "thrown", !.status = status]

\* one invocation of a route loader: which request of the server it serves,
\* its route and parameter, where it stands, the error its inner catch block
\* caught, and its response
IdleLoader ==
    [request |-> 0, route |-> "none", pc |-> "idle", slug |-> "", healthy |-> FALSE,
     caught |-> FALSE, wpError |-> NoError, response |-> NoResponse]

\* process.env: the four variables getWordPressClient reads, "" when unset
NoEnv == [url |-> "", timeout |-> "", cache |-> "", retries |-> ""]

\* the environments explored: nothing set, all four set, two set
Envs ==
    {NoEnv,
     [url |-> "http://wp.example", timeout |-> "5000", cache |-> "false",
      retries |-> "1"],
     [url |-> "", timeout |-> "", cache |-> "true", retries |-> "1"]}

\* let defaultClient = null
NoClient == [baseUrl |-> "", timeout |-> 0, cache |-> FALSE, retries |-> 0]

\* the module's state: the environment, defaultClient (the configuration it
\* was constructed from) and how many clients getWordPressClient has made
NoProcess == [env |-> NoEnv, defaultClient |-> NoClient, constructions |-> 0]

(* -------------------------- request composition ------------------------ *)

PostEndpoint(identifier) ==
    IF identifier.isNumber
    THEN "/posts/" \o ToString(identifier.num)
             \o "?_embed=author,wp:featuredmedia,wp:term"
    ELSE "/posts?slug=" \o identifier.str
             \o "&_embed=author,wp:featuredmedia,wp:term"

PageEndpoint(identifier) ==
    IF identifier.isNumber
    THEN "/pages/" \o ToString(identifier.num)
             \o "?_embed=author,wp:featuredmedia"
    ELSE "/pages?slug=" \o identifier.str
             \o "&_embed=author,wp:featuredmedia"

RequestUrl(endpoint) == BaseUrl \o "/wp-json/wp/v2" \o endpoint

\* JSON.stringify(options) of the empty options object the lookups pass
SerializedOptions == "{}"

\* CacheKey without the endpoint: every request shares one key
CacheKeyBare(endpoint) == RequestUrl("") \o ":" \o SerializedOptions

CacheKey(endpoint) == RequestUrl(endpoint) \o ":" \o SerializedOptions

\* the percent-encoding URLSearchParams applies, on the values used here
FormEncode(value) ==
    CASE value = "author,wp:featuredmedia,wp:term"
             -> "author%2Cwp%3Afeaturedmedia%2Cwp%3Aterm"
      [] value = "author,wp:featuredmedia"
             -> "author%2Cwp%3Afeaturedmedia"
      [] OTHER -> value

\* one entry of a URLSearchParams list
Pair(name, value) == [name |-> name, value |-> value]

\* `if (params.x) searchParams.append(...)` for a string field
StringParam(name, value) ==
    IF value = "" THEN <<>> ELSE <<Pair(name, value)>>

\* NumberParam without the test: the field is appended whatever it holds
NumberParamAlways(name, value) == <<Pair(name, ToString(value))>>

\* `if (params.x) searchParams.append(..., params.x.toString())`
NumberParam(name, value) ==
    IF value = 0 THEN <<>> ELSE <<Pair(name, ToString(value))>>

\* `if (params.x !== undefined) searchParams.append(..., params.x.toString())`
DefinedParam(name, field) ==
    IF ~field.present THEN <<>>
    ELSE <<Pair(name, IF field.str # "" THEN field.str ELSE ToString(field.num))>>

RECURSIVE JoinParams(_)
\* URLSearchParams.toString
JoinParams(pairs) ==
    IF Len(pairs) = 0 THEN ""
    ELSE IF Len(pairs) = 1
         THEN pairs[1].name \o "=" \o FormEncode(pairs[1].value)
         ELSE pairs[1].name \o "=" \o FormEncode(pairs[1].value)
                  \o "&" \o JoinParams(Tail(pairs))

\* the searchParams of getPosts
PostsSearchParams(params) ==
    NumberParam("page", params.page)
        \o NumberParam("per_page", params.perPage)
        \o StringParam("categories", params.categories)
        \o StringParam("tags", params.tags)
        \o StringParam("search", params.search)
        \o StringParam("orderby", params.orderby)
        \o StringParam("order", params.order)
        \o StringParam("status", params.status)
        \o <<Pair("_embed", "author,wp:featuredmedia,wp:term")>>

PostsQuery(params) == JoinParams(PostsSearchParams(params))

PostsEndpoint(params) ==
    "/posts" \o (IF PostsQuery(params) = "" THEN "" ELSE "?" \o PostsQuery(params))

\* the searchParams of getPages: `parent` is appended whenever it is defined
PagesSearchParams(args) ==
    NumberParam("page", args.page.num)
        \o NumberParam("per_page", args.perPage.num)
        \o StringParam("search", args.search.str)
        \o DefinedParam("parent", args.parent)
        \o StringParam("orderby", args.orderby.str)
        \o StringParam("order", args.order.str)
        \o StringParam("status", args.status.str)
        \o <<Pair("_embed", "author,wp:featuredmedia")>>

PagesEndpoint(args) ==
    "/pages" \o (IF JoinParams(PagesSearchParams(args)) = "" THEN ""
                 ELSE "?" \o JoinParams(PagesSearchParams(args)))

\* the searchParams of getCategories: no _embed
CategoriesSearchParams(args) ==
    NumberParam("page", args.page.num)
        \o NumberParam("per_page", args.perPage.num)
        \o StringParam("search", args.search.str)
        \o StringParam("orderby", args.orderby.str)
        \o StringParam("order", args.order.str)
        \o DefinedParam("hide_empty", args.hideEmpty)

CategoriesEndpoint(args) ==
    "/categories" \o (IF JoinParams(CategoriesSearchParams(args)) = "" THEN ""
                      ELSE "?" \o JoinParams(CategoriesSearchParams(args)))

\* the searchParams of search: the query is appended whatever it is
SearchSearchParams(args) ==
    <<Pair("search", args.query)>>
        \o NumberParam("page", args.page.num)
        \o NumberParam("per_page", args.perPage.num)

\* SearchCollection with 'any' sent to the pages collection
SearchCollectionAnyPages(args) ==
    IF args.type.str = "post" THEN "/posts" ELSE "/pages"

\* the collection search queries: type = params.type || 'any', then
\* type === 'page' ? '/pages' : '/posts'
SearchCollection(args) ==
    IF (IF args.type.str = "" THEN "any" ELSE args.type.str) = "page"
    THEN "/pages" ELSE "/posts"

\* the endpoint of search; _embed is written into the URL as it is
SearchEndpoint(args) ==
    SearchCollection(args) \o "?" \o JoinParams(SearchSearchParams(args))
        \o "&_embed=author,wp:featuredmedia,wp:term"

\* the entry cache.set stores
CacheEntry(data, timestamp, ttl) ==
    [data |-> data, timestamp |-> timestamp, ttl |-> ttl]

\* CacheFresh with <= for <: an entry aged exactly ttl is still served
CacheFreshInclusive(key) ==
    /\ key \in DOMAIN cache
    /\ now - cache[key].timestamp <= cache[key].ttl

\* cached && Date.now() - cached.timestamp < cached.ttl
CacheFresh(key) ==
    /\ key \in DOMAIN cache
    /\ now - cache[key].timestamp < cache[key].ttl

\* Map.set
CacheSet(key, entry) ==
    [k \in DOMAIN cache \cup {key} |-> IF k = key THEN entry ELSE cache[k]]

EmptyCache == [k \in {} |-> NoBody]

(* ------------------------------- backend ------------------------------- *)

\* what the backend can answer a lookup with: the resource path answers
\* with one item, the slug query with a collection
LookupBodies(type, identifier) ==
    IF identifier.isNumber
    THEN {ObjectBody(Item(type, identifier.num, s, r)) :
              s \in Slugs, r \in 1..MaxRev}
    ELSE {ArrayBody(<<>>)}
           \cup {ArrayBody(<<Item(type, 1, identifier.str, r)>>) : r \in 1..MaxRev}
           \cup {ArrayBody(<<Item(type, 2, identifier.str, 1),
                             Item(type, 1, identifier.str, 1)>>)}

\* the collections and the pagination headers the backend answers getPosts with
PostsBodies ==
    {<<>>, <<Item("post", 1, "hello", 1)>>,
     <<Item("post", 2, "news", 1), Item("post", 1, "hello", 1)>>}

PagesBodies ==
    {<<>>, <<Item("page", 4, "about", 1)>>,
     <<Item("page", 5, "contact", 1), Item("page", 4, "about", 1)>>}

CategoriesBodies == {<<>>, <<Item("category", 1, "news", 1)>>}

\* what the backend answers a request to a collection with
CollectionBodies(collection) ==
    CASE collection = "/posts" -> PostsBodies
      [] collection = "/pages" -> PagesBodies
      [] collection = "/categories" -> CategoriesBodies

PostsHeaders == {[total |-> 0, totalPages |-> 0], [total |-> 3, totalPages |-> 2]}

(* ------------------------------ call state ----------------------------- *)

\* one attempt's end, as the caller of fetch saw it: a response with its
\* status, a network failure, an abort, or an ok response with an invalid body
Attempt(kind, status) == [kind |-> kind, status |-> status]

NoAttempt == Attempt("none", 0)

\* the call record after one more attempt has ended
Ended(r, attempt) ==
    [r EXCEPT !.attempts = @ + 1, !.lastAttempt = attempt,
              !.onlyServerErrors = @ /\ attempt.kind = "response"
                                     /\ attempt.status >= 500]

\* the body of the ok response of the last attempt turned out not to be JSON
Invalid(r) == [r EXCEPT !.lastAttempt.kind = "invalid"]

\* one caller's invocation: the operation and its argument, the locals of
\* request() (attempt, lastError, the AbortController and its timer), a
\* record of what the invocation has seen and done, and for a list operation
\* its argument field by field, its searchParams, the collection it
\* addresses and the URL it fetches
IdleCall ==
    [pc |-> "idle", op |-> "none", identifier |-> NoIdentifier, params |-> NoParams,
     attempt |-> 0, lastError |-> NoError,
     aborted |-> FALSE, timerArmed |-> FALSE, timeoutAt |-> 0, wakeAt |-> 0,
     status |-> 0,
     attemptStart |-> 0, netCalls |-> 0, attempts |-> 0,
     lastAttempt |-> NoAttempt, onlyServerErrors |-> TRUE, waits |-> <<>>,
     fromCache |-> FALSE, cachedAge |-> -1, afterClear |-> "no", repeat |-> FALSE,
     outcome |-> "none", result |-> NoBody, item |-> NoItem, list |-> NoList,
     health |-> NoHealth, error |-> NoError,
     args |-> NoArgs, searchParams |-> <<>>, collection |-> "", url |-> ""]

LookupOps == {"getPost", "getPage"}

ItemType(op) == IF op = "getPost" THEN "post" ELSE "page"

Endpoint(op, identifier) ==
    IF op = "getPost" THEN PostEndpoint(identifier) ELSE PageEndpoint(identifier)

KeyOf(r) == CacheKey(Endpoint(r.op, r.identifier))

NotFoundMessage(op) == IF op = "getPost" THEN "Post not found" ELSE "Page not found"

HttpMessage(status) == "HTTP " \o ToString(status)

\* the last step taken: a call made by c ("call"), data received from the
\* backend by c ("data"), clearCache with the keys of the entries it removed
\* while they were fresh, or any other step
Event(ev, c, keys) == [ev |-> ev, c |-> c, keys |-> keys]

Step == Event("step", 0, {})

\* a new invocation: what it finds on entry
NewCall(c, op, identifier, params) ==
    [IdleCall EXCEPT
        !.op = op, !.identifier = identifier, !.params = params,
        !.repeat = /\ last.ev = "data"
                   /\ calls[last.c].op = op
                   /\ calls[last.c].identifier = identifier
                   /\ calls[last.c].params = params
                   /\ calls[last.c].outcome = "ok"]

(* ----------------------- getPost / getPage / request ------------------- *)

\* the call ends by returning an item
ReturnItem(r, item) ==
    [r EXCEPT !.pc = "done", !.outcome = "ok", !.item = item,
              !.attemptStart = 0, !.status = 0]

\* the call ends by throwing
Throw(r, error) ==
    [r EXCEPT !.pc = "done", !.outcome = "error", !.error = error,
              !.attemptStart = 0, !.status = 0]

\* Deliver taking the last element of a collection instead of the first
DeliverLast(r, data) ==
    IF data.isArray
    THEN IF Len(data.items) = 0
         THEN Throw(r, WordPressApiError(NotFoundMessage(r.op), 404))
         ELSE ReturnItem(r, data.items[Len(data.items)])
    ELSE ReturnItem(r, data.items[1])

\* getPost/getPage after request() returned r.result: an empty collection is
\* a 404, a collection yields its first element, a resource is returned as is
Deliver(r, data) ==
    IF data.isArray
    THEN IF Len(data.items) = 0
         THEN Throw(r, WordPressApiError(NotFoundMessage(r.op), 404))
         ELSE ReturnItem(r, data.items[1])
    ELSE ReturnItem(r, data.items[1])

\* fetch(url, {signal}): an aborted signal rejects without touching the network
IssueFetch(r) ==
    [r EXCEPT !.pc = "fetching", !.attemptStart = now,
              !.netCalls = IF r.aborted THEN @ ELSE @ + 1]

\* Backoff without the doubling: every wait is one second
BackoffConstant(attempt) == 1000

\* the delay awaited after the failure of attempt number `attempt`
Backoff(attempt) == (2 ^ attempt) * 1000

\* Terminal with the threshold at 400: a 4xx answer is retried
TerminalBelow400(error) ==
    /\ error.name = "WordPressApiError"
    /\ error.status # 0
    /\ error.status < 400

\* is the error one the catch block rethrows at once
Terminal(error) ==
    /\ error.name = "WordPressApiError"
    /\ error.status # 0
    /\ error.status < 500

\* Catch with the loop bound off by one: one attempt more than `retries`
CatchExtraAttempt(r, error) ==
    IF Terminal(error)
    THEN Throw([r EXCEPT !.lastError = error], error)
    ELSE IF r.attempt < config.retries
         THEN [r EXCEPT !.lastError = error, !.pc = "backoff",
                        !.wakeAt = now + Backoff(r.attempt),
                        !.waits = Append(@, Backoff(r.attempt))]
         ELSE Throw([r EXCEPT !.lastError = error, !.attempt = @ + 1,
                              !.timerArmed = FALSE, !.timeoutAt = 0], error)

\* Catch that records only the first error: lastError is set while it is null
CatchKeepsFirst(r, error) ==
    LET kept == IF r.lastError = NoError THEN error ELSE r.lastError
    IN  IF Terminal(error)
        THEN Throw([r EXCEPT !.lastError = kept], error)
        ELSE IF r.attempt < config.retries - 1
             THEN [r EXCEPT !.lastError = kept, !.pc = "backoff",
                            !.wakeAt = now + Backoff(r.attempt),
                            !.waits = Append(@, Backoff(r.attempt))]
             ELSE Throw([r EXCEPT !.lastError = kept, !.attempt = @ + 1,
                                  !.timerArmed = FALSE, !.timeoutAt = 0], kept)

\* the catch block of the retry loop, and the loop's exit
Catch(r, error) ==
    IF Terminal(error)
    THEN Throw([r EXCEPT !.lastError = error], error)
    ELSE IF r.attempt < config.retries - 1
         THEN [r EXCEPT !.lastError = error, !.pc = "backoff",
                        !.wakeAt = now + Backoff(r.attempt),
                        !.waits = Append(@, Backoff(r.attempt))]
         ELSE Throw([r EXCEPT !.lastError = error, !.attempt = @ + 1,
                              !.timerArmed = FALSE, !.timeoutAt = 0], error)

\* request() up to its first await
RequestEnterOf(cfg, r) ==
    LET key == KeyOf(r)
        seen == [r EXCEPT
                   !.cachedAge = IF cfg.cache /\ key \in DOMAIN cache
                                 THEN now - cache[key].timestamp ELSE -1,
                   !.afterClear = IF last.ev # "clearCache" THEN "no"
                                  ELSE IF key \in last.keys THEN "evicted"
                                  ELSE "absent"]
    IN  IF cfg.cache /\ CacheFresh(key)
        THEN Deliver([seen EXCEPT !.fromCache = TRUE, !.result = cache[key].data],
                     cache[key].data)
        ELSE IF 0 < cfg.retries
             THEN IssueFetch([seen EXCEPT !.timerArmed = TRUE,
                                          !.timeoutAt = now + cfg.timeout])
             ELSE Throw(seen, WordPressApiError("Request failed after retries", 0))

\* request() of the client whose configuration is the variable config
RequestEnter(r) == RequestEnterOf(config, r)

\* Lookup with a cache that drops the entry it finds expired
LookupEvictsStale(c, op, identifier) ==
    LET key == CacheKey(Endpoint(op, identifier))
    IN  /\ calls[c].pc \in {"idle", "done"}
        /\ issued < MaxCalls
        /\ issued' = issued + 1
        /\ calls' = [calls EXCEPT ![c] =
                        RequestEnter(NewCall(c, op, identifier, NoParams))]
        /\ cache' = IF config.cache /\ key \in DOMAIN cache /\ ~CacheFresh(key)
                    THEN [k \in DOMAIN cache \ {key} |-> cache[k]]
                    ELSE cache
        /\ last' = Event("call", c, {})
        /\ UNCHANGED <<process, loader, config, now, ticks>>

Lookup(c, op, identifier) ==
    /\ calls[c].pc \in {"idle", "done"}
    /\ issued < MaxCalls
    /\ issued' = issued + 1
    /\ calls' = [calls EXCEPT ![c] =
                    RequestEnter(NewCall(c, op, identifier, NoParams))]
    /\ last' = Event("call", c, {})
    /\ UNCHANGED <<process, loader, config, cache, now, ticks>>

GetPost(c, identifier) == Lookup(c, "getPost", identifier)

GetPage(c, identifier) == Lookup(c, "getPage", identifier)

\* the fetch promise resolves with a response: clearTimeout(timeoutId)
FetchResponse(c) ==
    /\ calls[c].pc = "fetching"
    /\ calls[c].op \in LookupOps
    /\ ~calls[c].aborted
    /\ \E status \in Statuses :
          calls' = [calls EXCEPT ![c] =
                      [Ended(calls[c], Attempt("response", status)) EXCEPT
                          !.pc = "parsing", !.status = status,
                          !.timerArmed = FALSE, !.timeoutAt = 0]]
    /\ last' = Step
    /\ UNCHANGED <<process, loader, config, cache, now, ticks, issued>>

\* ParseError that also drops the entry under the key of the failed request
ParseErrorEvicts(c) ==
    /\ calls[c].pc = "parsing"
    /\ calls[c].op \in LookupOps
    /\ ~Ok(calls[c].status)
    /\ calls' = [calls EXCEPT ![c] =
                    Catch(calls[c], WordPressApiError(HttpMessage(calls[c].status),
                                                      calls[c].status))]
    /\ cache' = [k \in DOMAIN cache \ {KeyOf(calls[c])} |-> cache[k]]
    /\ last' = Step
    /\ UNCHANGED <<process, loader, config, now, ticks, issued>>

\* response.json() of a response that is not ok, then the throw
ParseError(c) ==
    /\ calls[c].pc = "parsing"
    /\ calls[c].op \in LookupOps
    /\ ~Ok(calls[c].status)
    /\ calls' = [calls EXCEPT ![c] =
                    Catch(calls[c], WordPressApiError(HttpMessage(calls[c].status),
                                                      calls[c].status))]
    /\ last' = Step
    /\ UNCHANGED <<process, loader, config, cache, now, ticks, issued>>

\* ParseBody without the test of config.cache around cache.set
ParseBodyAlwaysCaches(c) ==
    /\ calls[c].pc = "parsing"
    /\ calls[c].op \in LookupOps
    /\ Ok(calls[c].status)
    /\ \E data \in LookupBodies(ItemType(calls[c].op), calls[c].identifier) :
          /\ cache' = CacheSet(KeyOf(calls[c]),
                               CacheEntry(data, now, DefaultCacheTtl))
          /\ calls' = [calls EXCEPT ![c] =
                          Deliver([calls[c] EXCEPT !.result = data], data)]
    /\ last' = Event("data", c, {})
    /\ UNCHANGED <<process, loader, config, now, ticks, issued>>

\* ParseBody with cache.set made conditional: an entry already under the key
\* is kept
ParseBodyKeepsFirst(c) ==
    /\ calls[c].pc = "parsing"
    /\ calls[c].op \in LookupOps
    /\ Ok(calls[c].status)
    /\ \E data \in LookupBodies(ItemType(calls[c].op), calls[c].identifier) :
          /\ cache' = IF config.cache /\ KeyOf(calls[c]) \notin DOMAIN cache
                      THEN CacheSet(KeyOf(calls[c]),
                                    CacheEntry(data, now, DefaultCacheTtl))
                      ELSE cache
          /\ calls' = [calls EXCEPT ![c] =
                          Deliver([calls[c] EXCEPT !.result = data], data)]
    /\ last' = Event("data", c, {})
    /\ UNCHANGED <<process, loader, config, now, ticks, issued>>

\* ParseBody that stores a body only when it holds a record
ParseBodySkipsEmpty(c) ==
    /\ calls[c].pc = "parsing"
    /\ calls[c].op \in LookupOps
    /\ Ok(calls[c].status)
    /\ \E data \in LookupBodies(ItemType(calls[c].op), calls[c].identifier) :
          /\ cache' = IF config.cache /\ data # ArrayBody(<<>>)
                      THEN CacheSet(KeyOf(calls[c]),
                                    CacheEntry(data, now, DefaultCacheTtl))
                      ELSE cache
          /\ calls' = [calls EXCEPT ![c] =
                          Deliver([calls[c] EXCEPT !.result = data], data)]
    /\ last' = Event("data", c, {})
    /\ UNCHANGED <<process, loader, config, now, ticks, issued>>

\* response.json() of an ok response, cache.set and the return
ParseBody(c) ==
    /\ calls[c].pc = "parsing"
    /\ calls[c].op \in LookupOps
    /\ Ok(calls[c].status)
    /\ \E data \in LookupBodies(ItemType(calls[c].op), calls[c].identifier) :
          /\ cache' = IF config.cache
                      THEN CacheSet(KeyOf(calls[c]),
                                    CacheEntry(data, now, DefaultCacheTtl))
                      ELSE cache
          /\ calls' = [calls EXCEPT ![c] =
                          Deliver([calls[c] EXCEPT !.result = data], data)]
    /\ last' = Event("data", c, {})
    /\ UNCHANGED <<process, loader, config, now, ticks, issued>>

\* response.json() rejects: the body of an ok response is not JSON
ParseReject(c) ==
    /\ calls[c].pc = "parsing"
    /\ calls[c].op \in LookupOps
    /\ Ok(calls[c].status)
    /\ calls' = [calls EXCEPT ![c] =
                    Catch(Invalid(calls[c]), RuntimeError("SyntaxError"))]
    /\ last' = Step
    /\ UNCHANGED <<process, loader, config, cache, now, ticks, issued>>

\* the fetch promise rejects: network failure
FetchReject(c) ==
    /\ calls[c].pc = "fetching"
    /\ calls[c].op \in LookupOps
    /\ ~calls[c].aborted
    /\ calls' = [calls EXCEPT ![c] =
                    Catch(Ended(calls[c], Attempt("network", 0)),
                          RuntimeError("TypeError"))]
    /\ last' = Step
    /\ UNCHANGED <<process, loader, config, cache, now, ticks, issued>>

\* the timer callback: controller.abort()
TimeoutAbort(c) ==
    /\ calls[c].timerArmed
    /\ now >= calls[c].timeoutAt
    /\ calls' = [calls EXCEPT ![c].aborted = TRUE, ![c].timerArmed = FALSE,
                               ![c].timeoutAt = 0]
    /\ last' = Step
    /\ UNCHANGED <<process, loader, config, cache, now, ticks, issued>>

\* AbortReject with the abort taken as final: the AbortError is rethrown
\* without another attempt
AbortRejectTerminal(c) ==
    /\ calls[c].pc = "fetching"
    /\ calls[c].op \in LookupOps
    /\ calls[c].aborted
    /\ calls' = [calls EXCEPT ![c] =
                    Throw([Ended(calls[c], Attempt("abort", 0)) EXCEPT
                              !.lastError = RuntimeError("AbortError"),
                              !.timerArmed = FALSE, !.timeoutAt = 0],
                          RuntimeError("AbortError"))]
    /\ last' = Step
    /\ UNCHANGED <<process, loader, config, cache, now, ticks, issued>>

\* the fetch promise rejects because its signal is aborted
AbortReject(c) ==
    /\ calls[c].pc = "fetching"
    /\ calls[c].op \in LookupOps
    /\ calls[c].aborted
    /\ calls' = [calls EXCEPT ![c] =
                    Catch(Ended(calls[c], Attempt("abort", 0)),
                          RuntimeError("AbortError"))]
    /\ last' = Step
    /\ UNCHANGED <<process, loader, config, cache, now, ticks, issued>>

\* the backoff delay is over: the next iteration of the loop
BackoffWake(c) ==
    /\ calls[c].pc = "backoff"
    /\ now >= calls[c].wakeAt
    /\ calls' = [calls EXCEPT ![c] =
                    IssueFetch([calls[c] EXCEPT !.attempt = @ + 1, !.wakeAt = 0])]
    /\ last' = Step
    /\ UNCHANGED <<process, loader, config, cache, now, ticks, issued>>

\* ClearCache that evicts only the entries that have expired
ClearCacheStale ==
    /\ cache' = [k \in {j \in DOMAIN cache : CacheFresh(j)} |-> cache[k]]
    /\ last' = Event("clearCache", 0, {k \in DOMAIN cache : CacheFresh(k)})
    /\ UNCHANGED <<process, loader, config, now, ticks, calls, issued>>

ClearCache ==
    /\ cache' = EmptyCache
    /\ last' = Event("clearCache", 0, {k \in DOMAIN cache : CacheFresh(k)})
    /\ UNCHANGED <<process, loader, config, now, ticks, calls, issued>>

(* ------------- getPosts, getPages, getCategories, search --------------- *)

ListOps == {"getPosts", "getPages", "getCategories", "search"}

ListSearchParams(op, args) ==
    CASE op = "getPosts" -> PostsSearchParams(Flatten(args))
      [] op = "getPages" -> PagesSearchParams(args)
      [] op = "getCategories" -> CategoriesSearchParams(args)
      [] op = "search" -> SearchSearchParams(args)

ListCollection(op, args) ==
    CASE op = "getPosts" -> "/posts"
      [] op = "getPages" -> "/pages"
      [] op = "getCategories" -> "/categories"
      [] op = "search" -> SearchCollection(args)

ListEndpoint(op, args) ==
    CASE op = "getPosts" -> PostsEndpoint(Flatten(args))
      [] op = "getPages" -> PagesEndpoint(args)
      [] op = "getCategories" -> CategoriesEndpoint(args)
      [] op = "search" -> SearchEndpoint(args)

\* the message of the WordPressApiError thrown for an answer that is not ok
FailureMessage(op) ==
    CASE op = "getPosts" -> "Failed to fetch posts"
      [] op = "getPages" -> "Failed to fetch pages"
      [] op = "getCategories" -> "Failed to fetch categories"
      [] op = "search" -> "Search failed"

\* the invocation record of a list operation once its fetch is issued
ListEnter(c, op, args) ==
    [NewCall(c, op, NoIdentifier, Flatten(args)) EXCEPT
        !.pc = "fetching", !.attemptStart = now, !.netCalls = 1,
        !.args = args,
        !.searchParams = ListSearchParams(op, args),
        !.collection = ListCollection(op, args),
        !.url = RequestUrl(ListEndpoint(op, args))]

\* the invocation record of getPosts(params) once its fetch is issued
PostsEnter(c, params) == ListEnter(c, "getPosts", Given(params))

\* a list operation up to its await: the fetch is made directly, with no signal
ListCall(c, op, args) ==
    /\ calls[c].pc \in {"idle", "done"}
    /\ issued < MaxCalls
    /\ issued' = issued + 1
    /\ calls' = [calls EXCEPT ![c] = ListEnter(c, op, args)]
    /\ last' = Event("call", c, {})
    /\ UNCHANGED <<process, loader, config, cache, now, ticks>>

GetPosts(c, args) == ListCall(c, "getPosts", args)

GetPages(c, args) == ListCall(c, "getPages", args)

GetCategories(c, args) == ListCall(c, "getCategories", args)

Search(c, args) == ListCall(c, "search", args)

\* the response arrives; one that is not ok is thrown as WordPressApiError
PostsResponse(c) ==
    /\ calls[c].pc = "fetching"
    /\ calls[c].op \in ListOps
    /\ \E status \in Statuses :
          LET r == [Ended(calls[c], Attempt("response", status)) EXCEPT
                      !.status = status]
          IN  calls' = [calls EXCEPT ![c] =
                          IF Ok(status)
                          THEN [r EXCEPT !.pc = "parsing"]
                          ELSE Throw(r, WordPressApiError(FailureMessage(r.op),
                                                          status))]
    /\ last' = Step
    /\ UNCHANGED <<process, loader, config, cache, now, ticks, issued>>

\* response.json(), the pagination headers and the return
PostsParse(c) ==
    /\ calls[c].pc = "parsing"
    /\ calls[c].op \in ListOps
    /\ \E posts \in CollectionBodies(calls[c].collection), headers \in PostsHeaders :
          calls' = [calls EXCEPT ![c] =
                      [calls[c] EXCEPT
                          !.pc = "done", !.outcome = "ok",
                          !.attemptStart = 0, !.status = 0,
                          !.list = [data |-> posts,
                                    total |-> headers.total,
                                    totalPages |-> headers.totalPages,
                                    page |-> IF calls[c].params.page # 0
                                             THEN calls[c].params.page ELSE 1,
                                    perPage |-> IF calls[c].params.perPage # 0
                                                THEN calls[c].params.perPage
                                                ELSE 10]]]
    /\ last' = Event("data", c, {})
    /\ UNCHANGED <<process, loader, config, cache, now, ticks, issued>>

\* fetch or response.json() rejects: nothing catches it
PostsReject(c) ==
    /\ calls[c].op \in ListOps
    /\ \/ /\ calls[c].pc = "fetching"
          /\ calls' = [calls EXCEPT ![c] =
                          Throw(Ended(calls[c], Attempt("network", 0)),
                                RuntimeError("TypeError"))]
       \/ /\ calls[c].pc = "parsing"
          /\ calls' = [calls EXCEPT ![c] =
                          Throw(Invalid(calls[c]), RuntimeError("SyntaxError"))]
    /\ last' = Step
    /\ UNCHANGED <<process, loader, config, cache, now, ticks, issued>>

(* ------------------------------- healthCheck --------------------------- *)

Healthy == [status |-> "healthy", message |-> "WordPress API is accessible"]

Unhealthy(message) == [status |-> "unhealthy", message |-> message]

\* the invocation record of healthCheck once its fetch is issued
HealthEnter(c) ==
    [NewCall(c, "healthCheck", NoIdentifier, NoParams) EXCEPT
        !.pc = "fetching", !.attemptStart = now, !.netCalls = 1,
        !.timeoutAt = now + HealthCheckTimeout]

\* healthCheck up to its await: one fetch under AbortSignal.timeout(5000)
HealthCheck(c) ==
    /\ calls[c].pc \in {"idle", "done"}
    /\ issued < MaxCalls
    /\ issued' = issued + 1
    /\ calls' = [calls EXCEPT ![c] = HealthEnter(c)]
    /\ last' = Event("call", c, {})
    /\ UNCHANGED <<process, loader, config, cache, now, ticks>>

HealthReturn(r, health) ==
    [r EXCEPT !.pc = "done", !.outcome = "ok", !.health = health,
              !.attemptStart = 0, !.status = 0, !.timeoutAt = 0]

\* HealthResponse under the retry policy of request(): an answer that is
\* not ok is followed by another fetch while attempts remain
HealthResponseRetry(c) ==
    /\ calls[c].pc = "fetching"
    /\ calls[c].op = "healthCheck"
    /\ \E status \in Statuses :
          LET r == [Ended(calls[c], Attempt("response", status)) EXCEPT
                      !.status = status]
          IN  calls' = [calls EXCEPT ![c] =
                          IF Ok(status) THEN HealthReturn(r, Healthy)
                          ELSE IF r.attempt < config.retries - 1
                               THEN [r EXCEPT !.attempt = @ + 1, !.netCalls = @ + 1]
                               ELSE HealthReturn(r, Unhealthy("WordPress API returned "
                                                                \o ToString(status)))]
    /\ last' = Step
    /\ UNCHANGED <<process, loader, config, cache, now, ticks, issued>>

\* HealthResponse that takes any response for a sign of health
HealthResponseAnyStatus(c) ==
    /\ calls[c].pc = "fetching"
    /\ calls[c].op = "healthCheck"
    /\ \E status \in Statuses :
          calls' = [calls EXCEPT ![c] =
                      HealthReturn(Ended(calls[c], Attempt("response", status)),
                                   Healthy)]
    /\ last' = Step
    /\ UNCHANGED <<process, loader, config, cache, now, ticks, issued>>

\* the response arrives
HealthResponse(c) ==
    /\ calls[c].pc = "fetching"
    /\ calls[c].op = "healthCheck"
    /\ \E status \in Statuses :
          calls' = [calls EXCEPT ![c] =
                      HealthReturn(Ended(calls[c], Attempt("response", status)),
                                   IF Ok(status) THEN Healthy
                                   ELSE Unhealthy("WordPress API returned "
                                                     \o ToString(status)))]
    /\ last' = Step
    /\ UNCHANGED <<process, loader, config, cache, now, ticks, issued>>

\* HealthReject without the catch block of healthCheck: the rejection of
\* fetch is thrown to the caller
HealthRejectThrows(c) ==
    /\ calls[c].pc = "fetching"
    /\ calls[c].op = "healthCheck"
    /\ calls' = [calls EXCEPT ![c] =
                    [Throw(Ended(calls[c], Attempt("network", 0)),
                           RuntimeError("TypeError")) EXCEPT !.timeoutAt = 0]]
    /\ last' = Step
    /\ UNCHANGED <<process, loader, config, cache, now, ticks, issued>>

\* the fetch rejects: network failure, or the 5 s signal fired
HealthReject(c) ==
    /\ calls[c].pc = "fetching"
    /\ calls[c].op = "healthCheck"
    /\ \/ calls' = [calls EXCEPT ![c] =
                      HealthReturn(Ended(calls[c], Attempt("network", 0)),
                                   Unhealthy("WordPress API is not accessible: TypeError"))]
       \/ /\ now >= calls[c].timeoutAt
          /\ calls' = [calls EXCEPT ![c] =
                          HealthReturn(Ended([calls[c] EXCEPT !.aborted = TRUE],
                                             Attempt("abort", 0)),
                                       Unhealthy("WordPress API is not accessible: TimeoutError"))]
    /\ last' = Step
    /\ UNCHANGED <<process, loader, config, cache, now, ticks, issued>>

(* --------------------------------- clock ------------------------------- *)

\* Date.now() is seen to have advanced by d; at most `limit` advances
Advance(d, limit) ==
    /\ ticks < limit
    /\ now' = now + d
    /\ ticks' = ticks + 1
    /\ last' = Step
    /\ UNCHANGED <<process, loader, config, cache, calls, issued>>

Tick(d) == Advance(d, MaxTicks)

(* ---------------------------- specification ---------------------------- *)

Init ==
    /\ config \in [timeout : {DefaultTimeout}, cache : BOOLEAN,
                   retries : 0..MaxRetries]
    /\ cache = EmptyCache
    /\ now = 0
    /\ ticks = 0
    /\ calls = [c \in Calls |-> IdleCall]
    /\ issued = 0
    /\ last = Event("init", 0, {})
    /\ loader = IdleLoader
    /\ process = NoProcess

\* the steps of caller c
CallerNext(c) ==
    \/ \E identifier \in Identifiers : GetPost(c, identifier)
    \/ \E identifier \in Identifiers : GetPage(c, identifier)
    \/ FetchResponse(c)
    \/ ParseError(c)
    \/ ParseBody(c)
    \/ ParseReject(c)
    \/ FetchReject(c)
    \/ TimeoutAbort(c)
    \/ AbortReject(c)
    \/ BackoffWake(c)
    \/ \E params \in PostsParams : GetPosts(c, Given(params))
    \/ PostsResponse(c)
    \/ PostsParse(c)
    \/ PostsReject(c)
    \/ HealthCheck(c)
    \/ HealthResponse(c)
    \/ HealthReject(c)

\* one caller at a time: each call is awaited before the next is made
Next ==
    \/ \E c \in Sequential : CallerNext(c)
    \/ ClearCache
    \/ \E d \in TickSteps : Tick(d)

Spec == Init /\ [][Next]_vars

(* ------------------- one request(), through all its waits -------------- *)

\* the clock while a single request() runs through its retry loop
Elapse(d) == Advance(d, MaxWaitTicks)

InitRequest ==
    /\ config \in [timeout : {DefaultTimeout}, cache : BOOLEAN,
                   retries : 0..MaxAttempts]
    /\ cache = EmptyCache
    /\ now = 0
    /\ ticks = 0
    /\ calls = [c \in Calls |-> IdleCall]
    /\ issued = 0
    /\ last = Event("init", 0, {})
    /\ loader = IdleLoader
    /\ process = NoProcess

\* the first call made on a new client, followed to its end
NextRequest ==
    \/ \E c \in Sequential, identifier \in Identifiers :
          issued = 0 /\ GetPost(c, identifier)
    \/ \E c \in Sequential, identifier \in Identifiers :
          issued = 0 /\ GetPage(c, identifier)
    \/ \E c \in Sequential : FetchResponse(c)
    \/ \E c \in Sequential : ParseError(c)
    \/ \E c \in Sequential : ParseBody(c)
    \/ \E c \in Sequential : ParseReject(c)
    \/ \E c \in Sequential : FetchReject(c)
    \/ \E c \in Sequential : TimeoutAbort(c)
    \/ \E c \in Sequential : AbortReject(c)
    \/ \E c \in Sequential : BackoffWake(c)
    \/ \E d \in TickSteps : Elapse(d)

SpecRequest == InitRequest /\ [][NextRequest]_vars

(* ----------------------- one list operation, any argument -------------- *)

\* the values a field of the argument takes: absent, present and falsy,
\* present and not falsy (the enumerated fields cannot be falsy)
PageValues == {Absent, Num(0), Num(2), Num(-1)}
PerPageValues == {Absent, Num(0), Num(1)}
TermValues == {Absent, Str(""), Str("3")}
SearchValues == {Absent, Str(""), Str("remix")}
ParentValues == {Absent, Num(0), Num(4)}
OrderbyValues == {Absent, Str("date")}
OrderValues == {Absent, Str("desc")}
StatusValues == {Absent, Str("publish")}
HideEmptyValues == {Absent, Bool(FALSE), Bool(TRUE)}
TypeValues == {Absent, Str("any"), Str("post"), Str("page")}
Queries == {"", "remix"}

PostsArgs ==
    {[NoArgs EXCEPT !.page = page, !.perPage = perPage, !.categories = categories,
                    !.tags = tags, !.search = search, !.orderby = orderby,
                    !.order = order, !.status = status] :
        page \in PageValues, perPage \in PerPageValues,
        categories \in TermValues, tags \in TermValues, search \in SearchValues,
        orderby \in OrderbyValues, order \in OrderValues, status \in StatusValues}

PagesArgs ==
    {[NoArgs EXCEPT !.page = page, !.perPage = perPage, !.search = search,
                    !.parent = parent, !.orderby = orderby, !.order = order,
                    !.status = status] :
        page \in PageValues, perPage \in PerPageValues, search \in SearchValues,
        parent \in ParentValues, orderby \in OrderbyValues,
        order \in OrderValues, status \in StatusValues}

CategoriesArgs ==
    {[NoArgs EXCEPT !.page = page, !.perPage = perPage, !.search = search,
                    !.orderby = orderby, !.order = order, !.hideEmpty = hideEmpty] :
        page \in PageValues, perPage \in PerPageValues, search \in SearchValues,
        orderby \in {Absent, Str("name")}, order \in OrderValues,
        hideEmpty \in HideEmptyValues}

SearchArgs ==
    {[NoArgs EXCEPT !.query = query, !.type = type, !.page = page,
                    !.perPage = perPage] :
        query \in Queries, type \in TypeValues, page \in PageValues,
        perPage \in PerPageValues}

\* the first call made on a new client is a list operation, followed to its end
NextLists ==
    \/ \E c \in Sequential, args \in PostsArgs : issued = 0 /\ GetPosts(c, args)
    \/ \E c \in Sequential, args \in PagesArgs : issued = 0 /\ GetPages(c, args)
    \/ \E c \in Sequential, args \in CategoriesArgs :
          issued = 0 /\ GetCategories(c, args)
    \/ \E c \in Sequential, args \in SearchArgs : issued = 0 /\ Search(c, args)
    \/ \E c \in Sequential : PostsResponse(c)
    \/ \E c \in Sequential : PostsParse(c)
    \/ \E c \in Sequential : PostsReject(c)

SpecLists == Init /\ [][NextLists]_vars

(* --------------------------- concurrent callers ------------------------ *)

\* getPost/getPage calls of several callers in flight at once on the one
\* client, one call per caller: a call is suspended at its fetch, at
\* response.json() and at its backoff delay, and the steps of the other
\* calls run in between; the callers are numbered in the order they arrive,
\* and the clock advances by a whole ttl, after which every timer is due
Arrives(c) ==
    /\ calls[c].pc = "idle"
    /\ \A b \in Calls : b < c => calls[b].pc # "idle"

NextConcurrent ==
    \/ \E c \in Calls, identifier \in Identifiers :
          Arrives(c) /\ GetPost(c, identifier)
    \/ \E c \in Calls, identifier \in Identifiers :
          Arrives(c) /\ GetPage(c, identifier)
    \/ \E c \in Calls : FetchResponse(c)
    \/ \E c \in Calls : ParseError(c)
    \/ \E c \in Calls : ParseBody(c)
    \/ \E c \in Calls : ParseReject(c)
    \/ \E c \in Calls : FetchReject(c)
    \/ \E c \in Calls : TimeoutAbort(c)
    \/ \E c \in Calls : AbortReject(c)
    \/ \E c \in Calls : BackoffWake(c)
    \/ Tick(DefaultCacheTtl)

\* a client with the cache enabled and at least one attempt per request
InitConcurrent ==
    /\ Init
    /\ config.cache
    /\ config.retries >= 1

SpecConcurrent == InitConcurrent /\ [][NextConcurrent]_vars

(* ------------------------------ route loaders -------------------------- *)

\* new Error(healthStatus.message)
PlainError(message) == [name |-> "Error", message |-> message, status |-> 0]

\* Array.prototype.slice(0, n)
Slice(items, n) == SubSeq(items, 1, IF Len(items) < n THEN Len(items) ELSE n)

RECURSIVE FindBySlug(_, _)
\* items.find(item => item.slug === slug) || null
FindBySlug(items, slug) ==
    IF items = <<>> THEN NoItem
    ELSE IF Head(items).slug = slug THEN Head(items)
    ELSE FindBySlug(Tail(items), slug)

\* the slug route parameter as the argument of getPage: always a string
SlugIdentifier(slug) == [isNumber |-> FALSE, num |-> 0, str |-> slug]

\* the loader awaits a call of the client: `record` is the invocation once
\* the client has run up to its first await
Await(c, record) ==
    /\ calls[c].pc \in {"idle", "done"}
    /\ calls' = [calls EXCEPT ![c] = record]
    /\ issued' = issued + 1
    /\ last' = Event("call", c, {})
    /\ UNCHANGED <<process, config, cache, now, ticks>>

\* a step of the loader that calls nothing
Proceed ==
    /\ last' = Step
    /\ UNCHANGED <<process, config, cache, now, ticks, calls, issued>>

\* the inner catch block: the loader goes on to the placeholder content
Fallback(wpError) ==
    [loader EXCEPT !.pc = "mock", !.caught = TRUE, !.wpError = wpError]

Respond(response) == [loader EXCEPT !.pc = "done", !.response = response]

\* the server takes a request once the one before it is answered
Accept(route, slug) ==
    /\ loader.pc \in {"idle", "done"}
    /\ loader.request < MaxRequests
    /\ loader' = [IdleLoader EXCEPT !.request = loader.request + 1,
                                    !.route = route, !.slug = slug,
                                    !.pc = "health"]

\* the argument the homepage loader passes to getPosts
HomeParams ==
    [NoParams EXCEPT !.perPage = 6, !.orderby = "date", !.order = "desc",
                     !.status = "publish"]

HomeJson(posts, success, error) ==
    [NoResponse EXCEPT !.kind = "json", !.status = 200, !.posts = posts,
                       !.success = success, !.error = error]

HomeErrorMessage(wpError) ==
    IF wpError.name = "WordPressApiError"
    THEN "WordPress API Error: " \o wpError.message
    ELSE "WordPress is temporarily unavailable, showing sample content"

\* the homepage loader up to its first await: healthCheck()
HomeLoader(c) ==
    /\ Accept("home", "")
    /\ Await(c, HealthEnter(c))

\* healthCheck() returned: getPosts when healthy, else throw to the catch
HomeHealth(c) ==
    /\ loader.route = "home"
    /\ loader.pc = "health"
    /\ calls[c].pc = "done"
    /\ IF calls[c].health.status = "healthy"
       THEN /\ Await(c, PostsEnter(c, HomeParams))
            /\ loader' = [loader EXCEPT !.pc = "posts", !.healthy = TRUE]
       ELSE /\ Proceed
            /\ loader' = Fallback(PlainError(calls[c].health.message))

\* getPosts() returned or threw
HomePosts(c) ==
    /\ loader.route = "home"
    /\ loader.pc = "posts"
    /\ calls[c].pc = "done"
    /\ Proceed
    /\ loader' = IF calls[c].outcome = "ok"
                 THEN Respond(HomeJson(calls[c].list.data, TRUE, ""))
                 ELSE Fallback(calls[c].error)

\* HomeMock that leaves success as it was initialised
HomeMockKeepsSuccess ==
    /\ loader.route = "home"
    /\ loader.pc = "mock"
    /\ Proceed
    /\ loader' = Respond(HomeJson(Slice(MockPosts, 6), TRUE,
                                  HomeErrorMessage(loader.wpError)))

\* getMockPosts() returned: the rest of the catch block and the response
HomeMock ==
    /\ loader.route = "home"
    /\ loader.pc = "mock"
    /\ Proceed
    /\ loader' = Respond(HomeJson(Slice(MockPosts, 6), FALSE,
                                  HomeErrorMessage(loader.wpError)))

PageJson(page, success) ==
    [NoResponse EXCEPT !.kind = "json", !.status = 200, !.page = page,
                       !.success = success]

\* the outer catch block of the page loader, applied to what was thrown: a
\* Response is rethrown, a WordPressApiError 404 becomes a 404 Response, and
\* anything else a 500 Response
PageCatch(thrown) ==
    IF "kind" \in DOMAIN thrown THEN thrown
    ELSE IF thrown.name = "WordPressApiError" /\ thrown.status = 404
         THEN Thrown(404)
         ELSE Thrown(500)

\* the end of the outer try block: no page throws a 404 Response
PageRespond(page, success) ==
    IF page = NoItem THEN PageCatch(Thrown(404)) ELSE PageJson(page, success)

\* the page loader up to its first await: a missing slug throws at once
PageLoader(c, slug) ==
    /\ IF slug = ""
       THEN /\ loader.pc \in {"idle", "done"}
            /\ loader.request < MaxRequests
            /\ Proceed
            /\ loader' = [IdleLoader EXCEPT !.request = loader.request + 1,
                                            !.route = "page", !.pc = "done",
                                            !.response = Thrown(404)]
       ELSE /\ Accept("page", slug)
            /\ Await(c, HealthEnter(c))

\* PageHealth without the test of health.status: getPage(slug) is always called
PageHealthIgnoresStatus(c) ==
    /\ loader.route = "page"
    /\ loader.pc = "health"
    /\ calls[c].pc = "done"
    /\ Await(c, RequestEnter(NewCall(c, "getPage",
                                     SlugIdentifier(loader.slug), NoParams)))
    /\ loader' = [loader EXCEPT !.pc = "lookup",
                                !.healthy = calls[c].health.status = "healthy"]

\* healthCheck() returned: getPage(slug) when healthy, else throw to the catch
PageHealth(c) ==
    /\ loader.route = "page"
    /\ loader.pc = "health"
    /\ calls[c].pc = "done"
    /\ IF calls[c].health.status = "healthy"
       THEN /\ Await(c, RequestEnter(NewCall(c, "getPage",
                                            SlugIdentifier(loader.slug), NoParams)))
            /\ loader' = [loader EXCEPT !.pc = "lookup", !.healthy = TRUE]
       ELSE /\ Proceed
            /\ loader' = Fallback(PlainError(calls[c].health.message))

\* getPage() returned or threw: whatever it threw is caught by the inner catch
PageLookup(c) ==
    /\ loader.route = "page"
    /\ loader.pc = "lookup"
    /\ calls[c].pc = "done"
    /\ Proceed
    /\ loader' = IF calls[c].outcome = "ok"
                 THEN Respond(PageRespond(calls[c].item, TRUE))
                 ELSE Fallback(calls[c].error)

\* getMockPageBySlug() returned: success = false and the response
PageMock ==
    /\ loader.route = "page"
    /\ loader.pc = "mock"
    /\ Proceed
    /\ loader' = Respond(PageRespond(FindBySlug(MockPages, loader.slug), FALSE))

HealthJson(status, health) ==
    [NoResponse EXCEPT !.kind = "json", !.status = status, !.health = health]

\* the health-check endpoint up to its await
HealthLoader(c) ==
    /\ Accept("health", "")
    /\ Await(c, HealthEnter(c))

\* healthCheck() returned, or threw into the catch block
HealthRespond(c) ==
    /\ loader.route = "health"
    /\ loader.pc = "health"
    /\ calls[c].pc = "done"
    /\ Proceed
    /\ loader' = IF calls[c].outcome = "error"
                 THEN Respond(HealthJson(500, Unhealthy(calls[c].error.message)))
                 ELSE Respond(HealthJson(IF calls[c].health.status = "healthy"
                                         THEN 200 ELSE 503,
                                         calls[c].health))

\* one request served by one of the route loaders, with the steps of the
\* client calls it awaits
NextLoaders ==
    \/ \E c \in Sequential : HomeLoader(c)
    \/ \E c \in Sequential : HomeHealth(c)
    \/ \E c \in Sequential : HomePosts(c)
    \/ HomeMock
    \/ \E c \in Sequential, slug \in RouteSlugs : PageLoader(c, slug)
    \/ \E c \in Sequential : PageHealth(c)
    \/ \E c \in Sequential : PageLookup(c)
    \/ PageMock
    \/ \E c \in Sequential : HealthLoader(c)
    \/ \E c \in Sequential : HealthRespond(c)
    \/ \E c \in Sequential : FetchResponse(c)
    \/ \E c \in Sequential : ParseError(c)
    \/ \E c \in Sequential : ParseBody(c)
    \/ \E c \in Sequential : ParseReject(c)
    \/ \E c \in Sequential : FetchReject(c)
    \/ \E c \in Sequential : TimeoutAbort(c)
    \/ \E c \in Sequential : AbortReject(c)
    \/ \E c \in Sequential : BackoffWake(c)
    \/ \E c \in Sequential : PostsResponse(c)
    \/ \E c \in Sequential : PostsParse(c)
    \/ \E c \in Sequential : PostsReject(c)
    \/ \E c \in Sequential : HealthResponse(c)
    \/ \E c \in Sequential : HealthReject(c)
    \/ \E d \in TickSteps : Tick(d)

SpecLoaders == Init /\ [][NextLoaders]_vars

(* --------------------- one request(), run to its end ------------------- *)

\* the deadlines of the timers that are set: the abort timer of a call and
\* the backoff wait it sleeps in
Deadlines ==
    {calls[c].timeoutAt : c \in {b \in Calls : calls[b].timerArmed}}
        \cup {calls[c].wakeAt : c \in {b \in Calls : calls[b].pc = "backoff"}}

\* time passes until the next timer that is set falls due
TimerDue ==
    LET later == {d \in Deadlines : d > now}
    IN  /\ later # {}
        /\ now' = CHOOSE d \in later : \A e \in later : d <= e
        /\ last' = Step
        /\ UNCHANGED <<process, loader, config, cache, ticks, calls, issued>>

NextLive ==
    \/ \E c \in Sequential, identifier \in Identifiers :
          issued = 0 /\ GetPost(c, identifier)
    \/ \E c \in Sequential, identifier \in Identifiers :
          issued = 0 /\ GetPage(c, identifier)
    \/ \E c \in Sequential :
          \/ FetchResponse(c)
          \/ ParseError(c)
          \/ ParseBody(c)
          \/ ParseReject(c)
          \/ FetchReject(c)
          \/ TimeoutAbort(c)
          \/ AbortReject(c)
          \/ BackoffWake(c)
    \/ TimerDue

\* what the runtime guarantees: time passes, a timer that is due runs its
\* callback, a fetch whose signal is aborted rejects, and the body of a
\* response that has arrived is read to its end.  Nothing makes the backend
\* answer a request: FetchResponse and FetchReject are not fair.
FairLive ==
    /\ WF_vars(TimerDue)
    /\ \A c \in Sequential :
          /\ WF_vars(TimeoutAbort(c))
          /\ WF_vars(AbortReject(c))
          /\ WF_vars(BackoffWake(c))
          /\ WF_vars(ParseError(c))
          /\ WF_vars(ParseBody(c) \/ ParseReject(c))

SpecLive == InitRequest /\ [][NextLive]_vars /\ FairLive

(* ------------------- the default client and wordpressApi --------------- *)

\* number of calls made through wordpressApi in one behaviour
MaxApiCalls == 2

\* parseInt of the decimal strings the environment holds
ParseInt(s) ==
    CASE s = "10000" -> 10000
      [] s = "5000" -> 5000
      [] s = "3" -> 3
      [] s = "1" -> 1

\* the argument getWordPressClient passes to the constructor
ConfigFromEnv(env) ==
    [baseUrl |-> IF env.url = "" THEN BaseUrl ELSE env.url,
     timeout |-> ParseInt(IF env.timeout = "" THEN "10000" ELSE env.timeout),
     cache |-> env.cache # "false",
     retries |-> ParseInt(IF env.retries = "" THEN "3" ELSE env.retries)]

\* this.config of a client constructed with all three optional keys given
ClientConfig(given) ==
    [timeout |-> given.timeout, cache |-> given.cache, retries |-> given.retries]

\* defaultClient = new WordPressApiClient({...}): a client with an empty cache
Construct ==
    /\ process' = [process EXCEPT !.defaultClient = ConfigFromEnv(process.env),
                                  !.constructions = @ + 1]
    /\ config' = ClientConfig(ConfigFromEnv(process.env))
    /\ cache' = EmptyCache

\* getWordPressClient without its guard: a client is made on every call
GetWordPressClientAlways ==
    /\ Construct
    /\ last' = Step
    /\ UNCHANGED <<loader, now, ticks, calls, issued>>

\* getWordPressClient()
GetWordPressClient ==
    /\ IF process.defaultClient = NoClient
       THEN Construct
       ELSE UNCHANGED <<process, config, cache>>
    /\ last' = Step
    /\ UNCHANGED <<loader, now, ticks, calls, issued>>

\* wordpressApi.getPage and wordpressApi.getPost
ApiLookup(c, op, identifier) ==
    /\ issued < MaxApiCalls
    /\ \/ /\ process.defaultClient # NoClient
          /\ Lookup(c, op, identifier)
       \/ /\ process.defaultClient = NoClient
          /\ calls[c].pc \in {"idle", "done"}
          /\ Construct
          /\ issued' = issued + 1
          /\ calls' = [calls EXCEPT ![c] =
                          RequestEnterOf(ClientConfig(ConfigFromEnv(process.env)),
                                         NewCall(c, op, identifier, NoParams))]
          /\ last' = Event("call", c, {})
          /\ UNCHANGED <<loader, now, ticks>>

\* wordpressApi.healthCheck
ApiHealthCheck(c) ==
    /\ issued < MaxApiCalls
    /\ \/ /\ process.defaultClient # NoClient
          /\ HealthCheck(c)
       \/ /\ process.defaultClient = NoClient
          /\ calls[c].pc \in {"idle", "done"}
          /\ Construct
          /\ issued' = issued + 1
          /\ calls' = [calls EXCEPT ![c] = HealthEnter(c)]
          /\ last' = Event("call", c, {})
          /\ UNCHANGED <<loader, now, ticks>>

\* wordpressApi.clearCache
ApiClearCache ==
    \/ /\ process.defaultClient # NoClient
       /\ ClearCache
    \/ /\ process.defaultClient = NoClient
       /\ Construct
       /\ last' = Event("clearCache", 0, {})
       /\ UNCHANGED <<loader, now, ticks, calls, issued>>

\* the environment is changed while the process runs
SetEnv(env) ==
    /\ env # process.env
    /\ process' = [process EXCEPT !.env = env]
    /\ last' = Step
    /\ UNCHANGED <<loader, config, cache, now, ticks, calls, issued>>

\* the process starts with no default client
InitDefault ==
    /\ process \in [env : Envs, defaultClient : {NoClient}, constructions : {0}]
    /\ config = ClientConfig(NoClient)
    /\ cache = EmptyCache
    /\ now = 0
    /\ ticks = 0
    /\ calls = [c \in Calls |-> IdleCall]
    /\ issued = 0
    /\ last = Event("init", 0, {})
    /\ loader = IdleLoader

NextDefault ==
    \/ GetWordPressClient
    \/ \E c \in Sequential, identifier \in Identifiers : ApiLookup(c, "getPage", identifier)
    \/ \E c \in Sequential : ApiHealthCheck(c)
    \/ ApiClearCache
    \/ \E env \in Envs : SetEnv(env)
    \/ \E c \in Sequential :
          \/ FetchResponse(c)
          \/ ParseError(c)
          \/ ParseBody(c)
          \/ ParseReject(c)
          \/ FetchReject(c)
          \/ TimeoutAbort(c)
          \/ AbortReject(c)
          \/ BackoffWake(c)
          \/ HealthResponse(c)
          \/ HealthReject(c)
    \/ \E d \in TickSteps : Tick(d)

SpecDefault == InitDefault /\ [][NextDefault]_vars

(* ------------------------------ properties ----------------------------- *)

\* the items of a payload were served for this call's operation and identifier
ServedFor(r, data) ==
    \A i \in 1..Len(data.items) :
        /\ data.items[i].type = ItemType(r.op)
        /\ IF r.identifier.isNumber
           THEN data.items[i].id = r.identifier.num
           ELSE data.items[i].slug = r.identifier.str

\* C1: a getPost/getPage call that misses the cache, with retries = N >= 1,
\* and whose every attempt is answered with a status >= 500 never makes more
\* than N network calls, returns no data, and ends, after exactly N network
\* calls, by throwing the error of a >= 500 answer.
ServerErrorsExhaustRetries ==
    \A c \in Calls :
        LET r == calls[c]
        IN  (/\ r.op \in LookupOps
             /\ config.retries >= 1
             /\ ~r.fromCache
             /\ r.onlyServerErrors)
            => /\ r.netCalls <= config.retries
               /\ r.outcome # "ok"
               /\ r.pc = "done" => /\ r.netCalls = config.retries
                                   /\ r.attempts = config.retries
                                   /\ r.outcome = "error"
                                   /\ r.error.status >= 500

WitnessServerErrorsExhaustRetries ==
    \E c \in Calls :
        /\ calls[c].op \in LookupOps
        /\ calls[c].pc = "done"
        /\ config.retries >= 2
        /\ ~calls[c].fromCache
        /\ calls[c].onlyServerErrors
        /\ calls[c].netCalls = config.retries
        /\ calls[c].outcome = "error"

\* C2: in getPost/getPage an answer that is not ok and has a status below 500
\* ends the call: it is the last attempt, the call throws that error, and no
\* backoff wait follows it; answered on the first attempt, the call has made
\* exactly 1 network call and no wait, whatever `retries` is.
ClientErrorIsTerminal ==
    \A c \in Calls :
        LET r == calls[c]
        IN  (/\ r.op \in LookupOps
             /\ r.lastAttempt.kind = "response"
             /\ ~Ok(r.lastAttempt.status)
             /\ r.lastAttempt.status < 500)
            => /\ r.pc \in {"parsing", "done"}
               /\ r.netCalls = r.attempts
               /\ Len(r.waits) = r.attempts - 1
               /\ r.attempts = 1 => (r.netCalls = 1 /\ r.waits = <<>>)
               /\ r.pc = "done" =>
                     /\ r.outcome = "error"
                     /\ r.error = WordPressApiError(
                                     HttpMessage(r.lastAttempt.status),
                                     r.lastAttempt.status)

WitnessClientErrorIsTerminal ==
    \E c \in Calls :
        /\ calls[c].op \in LookupOps
        /\ calls[c].pc = "done"
        /\ config.retries >= 2
        /\ calls[c].attempts = 1
        /\ calls[c].lastAttempt = Attempt("response", 404)
        /\ calls[c].netCalls = 1
        /\ calls[c].waits = <<>>
        /\ calls[c].error.status = 404

\* C3: with caching enabled, a getPosts call made right after an identical
\* getPosts call returned its data makes no network call.
RepeatedGetPostsIsCached ==
    \A c \in Calls :
        (/\ calls[c].op = "getPosts"
         /\ calls[c].repeat
         /\ config.cache)
        => calls[c].netCalls = 0

\* C4: with caching enabled, a getPost/getPage call is answered from the
\* cache exactly when, on entry, an entry under its own key is younger than
\* its ttl; a call so answered makes no network call and returns the payload
\* stored under that key, whose items were served for this operation and
\* identifier; any other call (retries >= 1) goes to the network.
CacheConsultedFirst ==
    \A c \in Calls :
        LET r == calls[c]
        IN  (r.op \in LookupOps /\ config.cache) =>
              /\ r.fromCache <=> (r.cachedAge >= 0 /\ r.cachedAge < DefaultCacheTtl)
              /\ r.fromCache =>
                    /\ r.netCalls = 0
                    /\ r.pc = "done"
                    /\ r.attempts = 0
                    /\ ServedFor(r, r.result)
                    /\ last = Event("call", c, {}) =>
                          /\ KeyOf(r) \in DOMAIN cache
                          /\ r.result = cache[KeyOf(r)].data
              /\ (~r.fromCache /\ config.retries >= 1) => r.netCalls >= 1

WitnessCacheConsultedFirst ==
    \E c \in Calls :
        /\ calls[c].op \in LookupOps
        /\ calls[c].fromCache
        /\ calls[c].netCalls = 0
        /\ calls[c].outcome = "ok"
        /\ Cardinality(DOMAIN cache) = 1
        /\ now > 0

\* C5: a getPost/getPage call that finds, on entry, an entry under its key
\* aged ttl or more (exactly ttl included) is not answered from the cache and
\* makes a network call; when the data arrives the entry under the key holds
\* the new payload and the time of arrival.
StaleEntryIsRefetched ==
    \A c \in Calls :
        LET r == calls[c]
        IN  (/\ r.op \in LookupOps
             /\ config.cache
             /\ config.retries >= 1
             /\ r.cachedAge >= DefaultCacheTtl)
            => /\ ~r.fromCache
               /\ r.netCalls >= 1
               /\ last = Event("data", c, {}) =>
                     /\ KeyOf(r) \in DOMAIN cache
                     /\ cache[KeyOf(r)] = CacheEntry(r.result, now, DefaultCacheTtl)

WitnessStaleEntryIsRefetched ==
    \E c \in Calls :
        /\ calls[c].op \in LookupOps
        /\ calls[c].cachedAge = DefaultCacheTtl
        /\ calls[c].netCalls = 1
        /\ last = Event("data", c, {})
        /\ cache[KeyOf(calls[c])].timestamp = now

\* C6: right after clearCache the cache has no entry, and a getPost/getPage
\* call made right after it is not answered from the cache and (retries >= 1)
\* makes a network call, also for a key whose entry was fresh when removed.
ClearCacheForcesFetch ==
    /\ last.ev = "clearCache" => cache = EmptyCache
    /\ \A c \in Calls :
          (calls[c].op \in LookupOps /\ calls[c].afterClear # "no")
          => /\ ~calls[c].fromCache
             /\ calls[c].cachedAge = -1
             /\ config.retries >= 1 => calls[c].netCalls >= 1

WitnessClearCacheForcesFetch ==
    \E c \in Calls :
        /\ calls[c].op \in LookupOps
        /\ calls[c].afterClear = "evicted"
        /\ config.cache
        /\ calls[c].netCalls = 1
        /\ calls[c].pc = "done"
        /\ calls[c].outcome = "ok"

\* C7: a healthCheck makes one network call, whatever `retries` is and
\* however the request ends; it makes no second attempt and no backoff wait,
\* is never answered from the cache, and leaves the cache as it is.
HealthCheckSingleCall ==
    /\ [](\A c \in Calls :
            calls[c].op = "healthCheck"
            => /\ calls[c].netCalls = 1
               /\ calls[c].attempt = 0
               /\ calls[c].attempts <= 1
               /\ calls[c].waits = <<>>
               /\ ~calls[c].fromCache)
    /\ [][\A c \in Calls :
            (calls'[c].op = "healthCheck" /\ calls'[c] # calls[c])
            => cache' = cache]_vars

WitnessHealthCheckSingleCall ==
    \E c \in Calls :
        /\ calls[c].op = "healthCheck"
        /\ calls[c].pc = "done"
        /\ config.retries >= 2
        /\ calls[c].health.status = "unhealthy"
        /\ calls[c].lastAttempt = Attempt("response", 500)
        /\ calls[c].netCalls = 1
        /\ cache # EmptyCache

\* C8: when request() has returned to getPost/getPage: an empty collection
\* makes the call throw WordPressApiError with status 404; a collection that
\* is not empty makes it return the first element; a single resource, which
\* is what a numeric identifier is answered with, is returned as it is.
LookupResult ==
    \A c \in Calls :
        LET r == calls[c]
        IN  (r.op \in LookupOps /\ r.pc = "done" /\ r.result # NoBody) =>
              /\ r.identifier.isNumber => ~r.result.isArray
              /\ (r.result.isArray /\ Len(r.result.items) = 0)
                    => /\ r.outcome = "error"
                       /\ r.error = WordPressApiError(NotFoundMessage(r.op), 404)
              /\ (r.result.isArray /\ Len(r.result.items) > 0)
                    => /\ r.outcome = "ok"
                       /\ r.item = r.result.items[1]
              /\ ~r.result.isArray
                    => /\ r.outcome = "ok"
                       /\ r.item = r.result.items[1]
                       /\ r.result = ObjectBody(r.item)

WitnessLookupResult ==
    \E c \in Calls :
        /\ calls[c].op = "getPage"
        /\ ~calls[c].identifier.isNumber
        /\ calls[c].pc = "done"
        /\ calls[c].result = ArrayBody(<<>>)
        /\ calls[c].error.status = 404

\* C9: every error a getPost/getPage call throws is a WordPressApiError.
LookupErrorsAreTyped ==
    \A c \in Calls :
        (/\ calls[c].op \in LookupOps
         /\ calls[c].pc = "done"
         /\ calls[c].outcome = "error")
        => calls[c].error.name = "WordPressApiError"

\* C10: every attempt of request() that is in flight has its own pending
\* cancellation, due `timeout` ms after that attempt started.
AttemptHasOwnTimeout ==
    \A c \in Calls :
        (/\ calls[c].op \in LookupOps
         /\ calls[c].pc = "fetching"
         /\ ~calls[c].aborted)
        => /\ calls[c].timerArmed
           /\ calls[c].timeoutAt = calls[c].attemptStart + config.timeout

\* C11: in request() the wait that follows the retryable failure of attempt
\* a (0-based, not the last) is 2^a seconds: the waits of a call are 1 s,
\* 2 s, 4 s, ... in that order, the wait is due 2^a s after the failure and
\* attempt a+1 starts no earlier; there is no wait before the first attempt,
\* none after the last attempt, and none after a failure with status < 500.
BackoffSchedule ==
    /\ [](\A c \in Calls :
            LET r == calls[c]
            IN  r.op \in LookupOps =>
                  /\ \A i \in 1..Len(r.waits) : r.waits[i] = (2 ^ (i - 1)) * 1000
                  /\ r.pc \in {"fetching", "parsing"} => Len(r.waits) = r.attempt
                  /\ r.pc = "backoff" =>
                        /\ Len(r.waits) = r.attempt + 1
                        /\ r.attempt < config.retries - 1
                        /\ r.lastAttempt.kind = "response" => r.lastAttempt.status >= 500
                  /\ r.pc = "done" =>
                        Len(r.waits) = IF r.attempts = 0 THEN 0 ELSE r.attempts - 1)
    /\ [][\A c \in Calls :
            /\ (calls[c].pc # "backoff" /\ calls'[c].pc = "backoff")
                  => /\ calls'[c].wakeAt = now + (2 ^ calls[c].attempt) * 1000
                     /\ calls'[c].attempt = calls[c].attempt
                     /\ now' = now
            /\ (calls[c].pc = "backoff" /\ calls'[c].pc # "backoff")
                  => /\ now >= calls[c].wakeAt
                     /\ calls'[c].pc = "fetching"
                     /\ calls'[c].attempt = calls[c].attempt + 1
                     /\ calls'[c].attemptStart = now]_vars

WitnessBackoffSchedule ==
    \E c \in Calls :
        /\ calls[c].op \in LookupOps
        /\ calls[c].pc = "fetching"
        /\ calls[c].attempt = 2
        /\ calls[c].waits = <<1000, 2000>>
        /\ calls[c].attemptStart >= 3000
        /\ calls[c].netCalls = 3

\* C12: the cache changes only by clearCache or in the step in which a
\* getPost/getPage call has parsed the body of a 2xx response, and then by
\* the entry set under that call's key; so a call that ends in an error
\* without having received a payload (a status < 500, or the retry budget
\* exhausted) has changed nothing in the cache, a stale entry under its own
\* key included.
CacheWrittenOnlyOnSuccess ==
    /\ [](\A c \in Calls :
            (calls[c].op \in LookupOps /\ last = Event("data", c, {}))
            => calls[c].result # NoBody)
    /\ [][/\ cache' # cache =>
              \/ last'.ev = "clearCache"
              \/ \E c \in Calls :
                    /\ calls[c].op \in LookupOps
                    /\ calls[c].pc = "parsing"
                    /\ Ok(calls[c].status)
                    /\ config.cache
                    /\ last' = Event("data", c, {})
                    /\ cache' = CacheSet(KeyOf(calls[c]),
                                         CacheEntry(calls'[c].result, now,
                                                    DefaultCacheTtl))
          /\ \A c \in Calls :
                (/\ calls[c].op \in LookupOps
                 /\ calls[c].pc # "done"
                 /\ calls'[c].pc = "done"
                 /\ calls'[c].outcome = "error"
                 /\ calls'[c].result = NoBody)
                => cache' = cache]_vars

WitnessCacheWrittenOnlyOnSuccess ==
    \E c \in Calls :
        /\ calls[c].op \in LookupOps
        /\ calls[c].pc = "done"
        /\ calls[c].outcome = "error"
        /\ calls[c].result = NoBody
        /\ calls[c].lastAttempt = Attempt("response", 404)
        /\ calls[c].cachedAge >= DefaultCacheTtl
        /\ KeyOf(calls[c]) \in DOMAIN cache
        /\ cache[KeyOf(calls[c])].timestamp = now - calls[c].cachedAge

\* C13: the homepage loader always answers with json (status 200).  When
\* healthCheck reported unhealthy or getPosts threw, whatever the error, the
\* answer carries placeholder posts, at most 6 of them, success = false and
\* an error message; success = true comes with the posts getPosts returned
\* from the backend and no error message.
HomeLoaderDegrades ==
    \A c \in Sequential :
        (loader.route = "home" /\ loader.pc = "done") =>
            LET r == calls[c]
                a == loader.response
                failed == \/ r.op = "healthCheck" /\ r.health.status = "unhealthy"
                          \/ r.op = "getPosts" /\ r.outcome = "error"
            IN  /\ a.kind = "json"
                /\ a.status = 200
                /\ failed =>
                      /\ ~a.success
                      /\ a.error # ""
                      /\ Len(a.posts) <= 6
                      /\ Len(a.posts) > 0
                      /\ \A i \in 1..Len(a.posts) : a.posts[i] = MockPosts[i]
                /\ a.success =>
                      /\ ~failed
                      /\ r.op = "getPosts"
                      /\ r.outcome = "ok"
                      /\ a.posts = r.list.data
                      /\ a.posts \in PostsBodies
                      /\ a.error = ""
                /\ a.success \/ failed

WitnessHomeLoaderDegrades ==
    \E c \in Sequential :
        /\ loader.route = "home"
        /\ loader.pc = "done"
        /\ calls[c].op = "getPosts"
        /\ calls[c].outcome = "error"
        /\ calls[c].error.name = "TypeError"
        /\ ~loader.response.success
        /\ Len(loader.response.posts) = 3
        /\ loader.response.error # ""

\* C14: when healthCheck reported healthy and getPage(slug) failed with
\* status 404, the page loader answers with a 404 Response, whatever the
\* slug: no placeholder page is served.
PageNotFoundIs404 ==
    \A c \in Sequential :
        (/\ loader.route = "page"
         /\ loader.pc = "done"
         /\ loader.healthy
         /\ calls[c].op = "getPage"
         /\ calls[c].outcome = "error"
         /\ calls[c].error.status = 404)
        => loader.response = Thrown(404)

\* C15: the health-check endpoint answers 200 exactly when healthCheck()
\* reported healthy and 503 otherwise; it answers with no other status.
HealthEndpointStatus ==
    \A c \in Sequential :
        (loader.route = "health" /\ loader.pc = "done") =>
            /\ loader.response.kind = "json"
            /\ loader.response.status \in {200, 503}
            /\ loader.response.status = 200 <=> calls[c].health.status = "healthy"
            /\ calls[c].health.status \in {"healthy", "unhealthy"}
            /\ loader.response.health = calls[c].health

WitnessHealthEndpointStatus ==
    \E c \in Sequential :
        /\ loader.route = "health"
        /\ loader.pc = "done"
        /\ calls[c].lastAttempt.kind = "network"
        /\ loader.response.status = 503

\* C16: with getPost/getPage calls of two callers interleaved in every way,
\* every cache entry is the parsed body of a 2xx response that a call for
\* that same key received (its items are of the key's type and identifier,
\* its timestamp is not in the future), a write replaces the entry under the
\* writer's own key by the writer's payload and leaves every other entry as
\* it is, and only such a write changes the cache: on a collision the entry
\* that remains is the one written last.
CacheNeverCorrupted ==
    /\ [](\A k \in DOMAIN cache :
            /\ cache[k].timestamp <= now
            /\ cache[k].ttl = DefaultCacheTtl
            /\ \E c \in Calls :
                  /\ calls[c].op \in LookupOps
                  /\ KeyOf(calls[c]) = k
                  /\ ~calls[c].fromCache
                  /\ calls[c].lastAttempt.kind = "response"
                  /\ Ok(calls[c].lastAttempt.status)
                  /\ calls[c].result = cache[k].data
                  /\ ServedFor(calls[c], cache[k].data))
    /\ [][cache' # cache =>
              \E c \in Calls :
                  /\ calls[c].pc = "parsing"
                  /\ Ok(calls[c].status)
                  /\ last' = Event("data", c, {})
                  /\ DOMAIN cache' = DOMAIN cache \cup {KeyOf(calls[c])}
                  /\ cache'[KeyOf(calls[c])]
                        = CacheEntry(calls'[c].result, now, DefaultCacheTtl)
                  /\ \A k \in DOMAIN cache :
                        k # KeyOf(calls[c]) => cache'[k] = cache[k]]_vars
    /\ [](\A c \in Calls :
            (last = Event("data", c, {}) /\ calls[c].op \in LookupOps)
            => /\ KeyOf(calls[c]) \in DOMAIN cache
               /\ cache[KeyOf(calls[c])].data = calls[c].result)

\* two calls for one key were in flight together and both wrote: the entry
\* is the payload of the one that wrote last
WitnessCacheNeverCorrupted ==
    \E c \in Calls, b \in Calls :
        /\ c # b
        /\ calls[c].op \in LookupOps
        /\ KeyOf(calls[c]) = KeyOf(calls[b])
        /\ ~calls[c].fromCache
        /\ ~calls[b].fromCache
        /\ calls[b].result # NoBody
        /\ calls[c].result # NoBody
        /\ calls[b].result # calls[c].result
        /\ last = Event("data", c, {})
        /\ cache[KeyOf(calls[c])].data = calls[c].result
        /\ Cardinality(DOMAIN cache) = 1

\* C18: on a client with cache = false the cache map is empty in every
\* state and no call is answered from it; a call made right after an
\* identical call returned its data goes to the network again (retries >= 1
\* for getPost/getPage), one network call when its first answer is ok, so
\* the two calls make two.
CacheDisabled ==
    ~config.cache =>
        /\ cache = EmptyCache
        /\ \A c \in Calls :
              LET r == calls[c]
              IN  /\ ~r.fromCache
                  /\ r.cachedAge = -1
                  /\ (r.repeat /\ (r.op \in LookupOps => config.retries >= 1))
                        => r.netCalls >= 1
                  /\ (r.repeat /\ r.pc = "done" /\ r.outcome = "ok"
                               /\ r.attempts = 1)
                        => r.netCalls = 1

WitnessCacheDisabled ==
    \E c \in Calls :
        /\ ~config.cache
        /\ calls[c].op \in LookupOps
        /\ calls[c].repeat
        /\ calls[c].pc = "done"
        /\ calls[c].outcome = "ok"
        /\ calls[c].netCalls = 1
        /\ issued = 2
        /\ ticks = 0
        /\ cache = EmptyCache

\* the filter fields of getPosts and getPages, and the parameter each is
\* sent as
FilterFields(op) ==
    IF op = "getPosts"
    THEN {"page", "perPage", "categories", "tags", "search", "orderby", "order",
          "status"}
    ELSE {"page", "perPage", "search", "parent", "orderby", "order", "status"}

QueryName(field) == IF field = "perPage" THEN "per_page" ELSE field

QueryNames(r) == {r.searchParams[i].name : i \in 1..Len(r.searchParams)}

EmbedOf(op) ==
    IF op = "getPosts" THEN "author,wp:featuredmedia,wp:term"
    ELSE "author,wp:featuredmedia"

\* C17 as stated: the query of getPosts/getPages has a parameter for exactly
\* the filter fields that are present, and _embed.
QueryHasPresentFields ==
    \A c \in Calls :
        calls[c].op \in {"getPosts", "getPages"} =>
            QueryNames(calls[c])
                = {QueryName(f) : f \in {g \in FilterFields(calls[c].op) :
                                            calls[c].args[g].present}}
                      \cup {"_embed"}

\* C17, amended: the query of getPosts/getPages has one parameter for each
\* filter field that is present with a value that is not falsy (a number
\* other than 0, a string other than ""), for `parent` of getPages whenever
\* it is present (0 included), and _embed last; each carries the value given;
\* an absent field has no parameter, and with every field absent the query
\* is the _embed parameter alone.
QueryHasTruthyFields ==
    \A c \in Calls :
        LET r == calls[c]
            sent(f) == /\ r.args[f].present
                       /\ \/ f = "parent"
                          \/ r.args[f].num # 0
                          \/ r.args[f].str # ""
        IN  r.op \in {"getPosts", "getPages"} =>
              /\ QueryNames(r)
                    = {QueryName(f) : f \in {g \in FilterFields(r.op) : sent(g)}}
                          \cup {"_embed"}
              /\ Cardinality(QueryNames(r)) = Len(r.searchParams)
              /\ r.searchParams[Len(r.searchParams)] = Pair("_embed", EmbedOf(r.op))
              /\ \A f \in FilterFields(r.op), i \in 1..Len(r.searchParams) :
                    r.searchParams[i].name = QueryName(f) =>
                        r.searchParams[i].value
                            = IF r.args[f].str # "" THEN r.args[f].str
                              ELSE ToString(r.args[f].num)
              /\ r.url = BaseUrl \o "/wp-json/wp/v2" \o r.collection \o "?"
                            \o JoinParams(r.searchParams)
              /\ (\A f \in FilterFields(r.op) : ~r.args[f].present) =>
                    r.url = BaseUrl \o "/wp-json/wp/v2" \o r.collection
                              \o (IF r.op = "getPosts"
                                  THEN "?_embed=author%2Cwp%3Afeaturedmedia%2Cwp%3Aterm"
                                  ELSE "?_embed=author%2Cwp%3Afeaturedmedia")

WitnessQueryHasTruthyFields ==
    \E c \in Calls :
        /\ calls[c].op = "getPages"
        /\ calls[c].args.page = Num(0)
        /\ calls[c].args.parent = Num(0)
        /\ calls[c].args.search = Str("remix")
        /\ ~calls[c].args.status.present
        /\ calls[c].url = BaseUrl \o "/wp-json/wp/v2/pages?search=remix&parent=0"
                              \o "&_embed=author%2Cwp%3Afeaturedmedia"

\* C19: a list operation whose every attempt is answered with a status >= 500
\* ends, with retries = N >= 1, after exactly N network calls and N - 1
\* backoff waits.
ListOperationsRetry ==
    \A c \in Calls :
        (/\ calls[c].op \in ListOps
         /\ calls[c].pc = "done"
         /\ config.retries >= 1
         /\ calls[c].lastAttempt.kind = "response"
         /\ calls[c].onlyServerErrors)
        => /\ calls[c].netCalls = config.retries
           /\ Len(calls[c].waits) = config.retries - 1

\* C20: search makes one request, to the posts collection when type is
\* absent, 'any' or 'post' and to the pages collection when type is 'page';
\* the request carries the query as its search parameter, and the data
\* returned are the items of that one collection.
SearchQueriesOneCollection ==
    \A c \in Calls :
        LET r == calls[c]
        IN  r.op = "search" =>
              /\ r.collection = IF r.args.type = Str("page") THEN "/pages"
                                ELSE "/posts"
              /\ r.netCalls = 1
              /\ r.attempts <= 1
              /\ r.searchParams[1] = Pair("search", r.args.query)
              /\ r.url = BaseUrl \o "/wp-json/wp/v2" \o r.collection \o "?"
                            \o JoinParams(r.searchParams)
                            \o "&_embed=author,wp:featuredmedia,wp:term"
              /\ (r.pc = "done" /\ r.outcome = "ok") =>
                    \A i \in 1..Len(r.list.data) :
                        r.list.data[i].type
                            = IF r.args.type = Str("page") THEN "page" ELSE "post"

WitnessSearchQueriesOneCollection ==
    \E c \in Calls :
        /\ calls[c].op = "search"
        /\ calls[c].args.type = Str("any")
        /\ calls[c].args.query = "remix"
        /\ calls[c].pc = "done"
        /\ calls[c].outcome = "ok"
        /\ Len(calls[c].list.data) = 2
        /\ calls[c].collection = "/posts"
        /\ calls[c].netCalls = 1

\* the error the catch block of request() receives for an attempt that ended
\* in the given way
ErrorOf(attempt) ==
    CASE attempt.kind = "response" ->
             WordPressApiError("HTTP " \o ToString(attempt.status), attempt.status)
      [] attempt.kind = "network" -> RuntimeError("TypeError")
      [] attempt.kind = "abort" -> RuntimeError("AbortError")
      [] attempt.kind = "invalid" -> RuntimeError("SyntaxError")
      [] OTHER -> NoError

\* C21: a getPost/getPage call that ends with all its `retries` >= 1
\* attempts failed throws the error of its last attempt, and the error it
\* holds in lastError while it waits is that of the attempt just failed; the
\* error 'Request failed after retries' is thrown exactly by a call that
\* made no attempt.
LastErrorSurfaces ==
    \A c \in Calls :
        LET r == calls[c]
        IN  r.op \in LookupOps =>
              /\ (r.pc = "done" /\ r.outcome = "error" /\ r.result = NoBody
                     /\ r.attempts >= 1)
                    => /\ r.error = ErrorOf(r.lastAttempt)
                       /\ r.lastError = r.error
              /\ r.pc = "backoff" => r.lastError = ErrorOf(r.lastAttempt)
              /\ (r.pc = "done" /\ r.outcome = "error"
                     /\ r.error.message = "Request failed after retries")
                    <=> (r.pc = "done" /\ ~r.fromCache /\ r.attempts = 0)

\* the last attempt was answered 500 and an earlier one ended otherwise
WitnessLastErrorSurfaces ==
    \E c \in Calls :
        /\ calls[c].op \in LookupOps
        /\ calls[c].pc = "done"
        /\ config.retries = 3
        /\ calls[c].attempts = 3
        /\ ~calls[c].onlyServerErrors
        /\ calls[c].lastAttempt = Attempt("response", 500)
        /\ calls[c].error = WordPressApiError("HTTP 500", 500)

FreshEntryReadOnly ==
    [][\A k \in DOMAIN cache \cap DOMAIN cache' :
          cache'[k] # cache[k] => now - cache[k].timestamp >= cache[k].ttl]_vars

\* C24: no step other than clearCache removes a key from the cache, and
\* clearCache removes them all; an entry whose age has reached its TTL stays
\* in the map, unchanged, until a call for its key writes a new one over it.
CacheNeverEvicts ==
    /\ [][last'.ev # "clearCache" => DOMAIN cache \subseteq DOMAIN cache']_vars
    /\ [][last'.ev = "clearCache" => cache' = EmptyCache]_vars
    /\ [][\A k \in DOMAIN cache :
            (~CacheFresh(k) /\ last'.ev # "clearCache")
            => /\ k \in DOMAIN cache'
               /\ \/ cache'[k] = cache[k]
                  \/ \E c \in Calls :
                        /\ last' = Event("data", c, {})
                        /\ KeyOf(calls[c]) = k
                        /\ cache'[k].timestamp = now]_vars

\* a lookup found the entry of its key expired, went to the network and
\* failed: the expired entry is still in the map
WitnessCacheNeverEvicts ==
    \E c \in Calls :
        /\ calls[c].op \in LookupOps
        /\ calls[c].pc = "done"
        /\ calls[c].outcome = "error"
        /\ ~calls[c].fromCache
        /\ calls[c].netCalls >= 1
        /\ calls[c].cachedAge >= DefaultCacheTtl
        /\ KeyOf(calls[c]) \in DOMAIN cache
        /\ now - cache[KeyOf(calls[c])].timestamp >= cache[KeyOf(calls[c])].ttl
        /\ now - cache[KeyOf(calls[c])].timestamp = calls[c].cachedAge

\* C25: getWordPressClient constructs a client at most once, from the
\* environment as it is at that first call; from then on defaultClient and
\* the client's configuration never change, whatever the environment
\* becomes, its cache is changed only by its own calls and clearCache, and
\* every call through wordpressApi runs under that configuration.
DefaultClientConstructedOnce ==
    /\ [](/\ process.constructions <= 1
          /\ process.constructions = 0 <=> process.defaultClient = NoClient
          /\ process.constructions = 1 => config = ClientConfig(process.defaultClient)
          /\ \A c \in Calls :
                calls[c].pc # "idle"
                => /\ process.constructions = 1
                   /\ calls[c].attempts <= config.retries
                   /\ calls[c].fromCache => config.cache)
    /\ [][process.defaultClient = NoClient
            => \/ process'.defaultClient = NoClient /\ config' = config
               \/ /\ process'.defaultClient = ConfigFromEnv(process.env)
                  /\ cache' = EmptyCache]_vars
    /\ [][process.defaultClient # NoClient
            => /\ process'.defaultClient = process.defaultClient
               /\ config' = config
               /\ cache' # cache => last'.ev \in {"data", "clearCache"}]_vars

\* a call made when the environment says one attempt and no cache is
\* answered from the cache of the client made under the earlier environment
WitnessDefaultClientConstructedOnce ==
    \E c \in Calls :
        /\ last = Event("call", c, {})
        /\ calls[c].fromCache
        /\ process.defaultClient = ConfigFromEnv(NoEnv)
        /\ process.env = [url |-> "http://wp.example", timeout |-> "5000",
                          cache |-> "false", retries |-> "1"]
        /\ config.cache
        /\ config.retries = 3

\* C26: the result of every getPosts, getPages, getCategories and search
\* that returned has no more items than its perPage and a page of at least 1.
PaginatedResultBounded ==
    \A c \in Calls :
        (calls[c].op \in ListOps /\ calls[c].pc = "done" /\ calls[c].outcome = "ok")
        => /\ Len(calls[c].list.data) <= calls[c].list.perPage
           /\ calls[c].list.page >= 1

\* C27: every getPost/getPage call that has been made eventually returns or
\* throws, whether or not the backend answers its requests.
LookupCompletes ==
    \A c \in Sequential :
        (calls[c].op \in LookupOps /\ calls[c].pc # "idle") ~> (calls[c].pc = "done")

\* C28: with the cache enabled, the empty collection a slug lookup received
\* is stored like any other body, and a lookup that is answered from the
\* cache with an empty collection throws the 404 of its operation without
\* a network call.
NegativeResultCached ==
    \A c \in Calls :
        LET r == calls[c]
        IN  r.op \in LookupOps =>
              /\ (last = Event("data", c, {}) /\ config.cache
                     /\ r.result = ArrayBody(<<>>))
                    => /\ KeyOf(r) \in DOMAIN cache
                       /\ cache[KeyOf(r)] = CacheEntry(ArrayBody(<<>>), now,
                                                       DefaultCacheTtl)
              /\ (r.pc = "done" /\ r.fromCache /\ r.result = ArrayBody(<<>>))
                    => /\ r.outcome = "error"
                       /\ r.error.name = "WordPressApiError"
                       /\ r.error.status = 404
                       /\ r.netCalls = 0
                       /\ r.cachedAge >= 0
                       /\ r.cachedAge < DefaultCacheTtl

\* the same slug looked up again within the TTL of the empty answer
WitnessNegativeResultCached ==
    \E c \in Calls :
        /\ calls[c].op \in LookupOps
        /\ ~calls[c].identifier.isNumber
        /\ calls[c].pc = "done"
        /\ calls[c].fromCache
        /\ calls[c].result = ArrayBody(<<>>)
        /\ calls[c].error.status = 404
        /\ calls[c].netCalls = 0
        /\ calls[c].cachedAge = 1000

\* C29: healthCheck never throws: it returns a status of 'healthy' or
\* 'unhealthy' with a message, 'healthy' exactly when its one request was
\* answered with a 2xx status; any other status, a network failure and the
\* timeout all give 'unhealthy'.
HealthCheckTotal ==
    \A c \in Calls :
        LET r == calls[c]
        IN  (r.op = "healthCheck" /\ r.pc = "done")
            => /\ r.outcome = "ok"
               /\ r.error = NoError
               /\ r.health.status \in {"healthy", "unhealthy"}
               /\ r.health.message # ""
               /\ r.health.status = "healthy"
                     <=> (r.lastAttempt.kind = "response" /\ Ok(r.lastAttempt.status))

\* the three ways to an unhealthy report have all been seen: here the timeout
WitnessHealthCheckTotal ==
    \E c \in Calls :
        /\ calls[c].op = "healthCheck"
        /\ calls[c].pc = "done"
        /\ calls[c].outcome = "ok"
        /\ calls[c].lastAttempt.kind = "abort"
        /\ calls[c].health.status = "unhealthy"

\* C30: the homepage and page loaders call getPosts or getPage only in the
\* step in which the healthCheck of the same request has returned 'healthy';
\* when it has returned 'unhealthy' the loader's next step goes to the
\* placeholder content and calls nothing.
ContentOnlyWhenHealthy ==
    /\ [][\A c \in Calls :
            (/\ issued' = issued + 1
             /\ last' = Event("call", c, {})
             /\ calls'[c].op \in {"getPosts", "getPage"})
            => /\ loader.route \in {"home", "page"}
               /\ loader.pc = "health"
               /\ loader'.request = loader.request
               /\ loader'.healthy
               /\ calls[c].op = "healthCheck"
               /\ calls[c].pc = "done"
               /\ calls[c].health.status = "healthy"]_vars
    /\ [][\A c \in Sequential :
            (/\ loader.route \in {"home", "page"}
             /\ loader.pc = "health"
             /\ loader' # loader
             /\ calls[c].pc = "done"
             /\ calls[c].health.status = "unhealthy")
            => /\ loader'.pc = "mock"
               /\ ~loader'.healthy
               /\ issued' = issued
               /\ calls' = calls]_vars
    /\ [](loader.pc \in {"posts", "lookup"} => loader.healthy)

\* a first request found the backend healthy and made its content call; the
\* second found it unhealthy and was answered after its healthCheck alone
WitnessContentOnlyWhenHealthy ==
    \E c \in Sequential :
        /\ loader.request = 2
        /\ loader.route = "page"
        /\ loader.pc = "done"
        /\ ~loader.healthy
        /\ loader.caught
        /\ issued = 3
        /\ calls[c].op = "healthCheck"
        /\ calls[c].health.status = "unhealthy"
====
